---------------------------- MODULE Spec2Model ----------------------------
(***************************************************************************)
(* Model of the analytics dashboard of custom-app-base-rev2: the three     *)
(* provider endpoints (web-analytics, advertising, social), the date       *)
(* normalisation they share, the tenant and account lookup, and the        *)
(* dashboard panels that call them.                                        *)
(*                                                                         *)
(* Strings the code inspects character by character (date tokens) are      *)
(* sequences of one-character strings, so that includes, replace and       *)
(* parseInt are computed as JavaScript computes them.  Time values are     *)
(* whole hours since 1970-01-01T00:00Z.                                    *)
(***************************************************************************)
EXTENDS Integers, Sequences, FiniteSets, TLC

VARIABLES
    tz,         \* the time zone of the server process (read by Date's local-time methods)
    now,        \* the clock: the time value `new Date()` yields
    fdFn,       \* date normalisation: which function was last called
    fdArg,      \* date normalisation: its argument
    fdRes,      \* date normalisation: what the call produced (a string or a thrown error)
    env,        \* process.env: the names of the variables that are set (non-empty)
    ep,         \* endpoint request: which endpoint handles it
    pc,         \* endpoint request: where the handler stands
    token,      \* endpoint request: the token parameter (NULL when absent)
    startDate,  \* endpoint request: startDate after defaulting
    endDate,    \* endpoint request: endDate after defaulting
    companyId,  \* endpoint request: the tenant id in use
    config,     \* endpoint request: the account config in use
    idCalls,    \* endpoint request: identity lookups issued so far
    session,    \* endpoint request: what the identity lookup produced
    issued,     \* endpoint request: provider queries issued so far, in order
    replies,    \* endpoint request: provider replies received so far, in order
    resp,       \* endpoint request: the response (status 0 while there is none)
    searchToken,    \* dashboard: the token of the page's search parameters (NULL when absent)
    selectedRange,  \* dashboard: GA4Dashboard's index into DATE_RANGES
    panel,          \* dashboard: the state of each panel component
    inflight,       \* dashboard: the fetches that have not settled
    started,        \* dashboard: how many fetches each panel has started
    cvFn,           \* reply parsing: which parse was last made
    cvArg,          \* reply parsing: the provider row it was given
    cvRes           \* reply parsing: the record it produced

dateVars == <<fdFn, fdArg, fdRes>>

reqVars ==
    <<ep, pc, token, startDate, endDate, companyId, config, idCalls, session, issued, replies, resp>>

dashVars == <<searchToken, selectedRange, panel, inflight, started>>

parseVars == <<cvFn, cvArg, cvRes>>

(***************************************************************************)
(* Bounds of the model.                                                    *)
(***************************************************************************)
MaxDaysAgo == 35

MaxRows == 1

MaxFetches == 2

FractionDigits == 3

(***************************************************************************)
(* Strings.                                                                *)
(***************************************************************************)
Digits == <<"0", "1", "2", "3", "4", "5", "6", "7", "8", "9">>

DigitChars == {Digits[i] : i \in 1..10}

DigitVal(c) == (CHOOSE i \in 1..10 : Digits[i] = c) - 1

NULL == <<"<null>">>

Str_today == <<"t", "o", "d", "a", "y">>

Str_yesterday == <<"y", "e", "s", "t", "e", "r", "d", "a", "y">>

Str_daysAgo == <<"d", "a", "y", "s", "A", "g", "o">>

\* String.prototype.includes
Includes(s, p) ==
    \E i \in 1..(Len(s) - Len(p) + 1) : SubSeq(s, i, i + Len(p) - 1) = p

\* String.prototype.replace with a string pattern: the first occurrence only
ReplaceFirst(s, p, r) ==
    IF ~Includes(s, p) THEN s
    ELSE LET i == CHOOSE k \in 1..(Len(s) - Len(p) + 1) :
                      /\ SubSeq(s, k, k + Len(p) - 1) = p
                      /\ \A j \in 1..(k - 1) : SubSeq(s, j, j + Len(p) - 1) # p
         IN  SubSeq(s, 1, i - 1) \o r \o SubSeq(s, i + Len(p), Len(s))

\* String.prototype.replace(/-/g, ''): every hyphen removed
RECURSIVE StripHyphens(_)
StripHyphens(s) ==
    IF s = <<>> THEN <<>>
    ELSE IF Head(s) = "-" THEN StripHyphens(Tail(s))
    ELSE <<Head(s)>> \o StripHyphens(Tail(s))

\* the decimal digits of a natural number, most significant first
RECURSIVE ToDecimal(_)
ToDecimal(n) ==
    IF n < 10 THEN <<Digits[n + 1]>>
    ELSE ToDecimal(n \div 10) \o <<Digits[(n % 10) + 1]>>

\* String.prototype.padStart(width, '0')
RECURSIVE PadZero(_, _)
PadZero(s, width) == IF Len(s) >= width THEN s ELSE PadZero(<<"0">> \o s, width)

NaN == [nan |-> TRUE, val |-> 0]

Num(n) == [nan |-> FALSE, val |-> n]

\* the value of the longest prefix of decimal digits of s, most significant first
RECURSIVE DigitsValue(_, _)
DigitsValue(s, acc) ==
    IF s = <<>> \/ Head(s) \notin DigitChars THEN acc
    ELSE DigitsValue(Tail(s), acc * 10 + DigitVal(Head(s)))

RECURSIVE TrimLeft(_)
TrimLeft(s) == IF s # <<>> /\ Head(s) = " " THEN TrimLeft(Tail(s)) ELSE s

\* parseInt(s) with no radix: leading white space, an optional sign, then the
\* longest run of decimal digits; NaN when there is no digit
parseInt(s) ==
    LET t    == TrimLeft(s)
        neg  == t # <<>> /\ Head(t) = "-"
        body == IF t # <<>> /\ Head(t) \in {"-", "+"} THEN Tail(t) ELSE t
    IN  IF body = <<>> \/ Head(body) \notin DigitChars THEN NaN
        ELSE Num(IF neg THEN 0 - DigitsValue(body, 0) ELSE DigitsValue(body, 0))

(***************************************************************************)
(* The calendar, as ECMAScript's Date uses it (proleptic Gregorian).       *)
(***************************************************************************)
\* day number (days since 1970-01-01) of year y, month m (1..12), day d
DaysFromCivil(y, m, d) ==
    LET yy  == IF m <= 2 THEN y - 1 ELSE y
        era == yy \div 400
        yoe == yy - era * 400
        mp  == IF m > 2 THEN m - 3 ELSE m + 9
        doy == (153 * mp + 2) \div 5 + d - 1
        doe == yoe * 365 + yoe \div 4 - yoe \div 100 + doy
    IN  era * 146097 + doe - 719468

\* the civil date of a day number
CivilFromDays(z) ==
    LET zz  == z + 719468
        era == zz \div 146097
        doe == zz - era * 146097
        yoe == (doe - doe \div 1460 + doe \div 36524 - doe \div 146096) \div 365
        doy == doe - (365 * yoe + yoe \div 4 - yoe \div 100)
        mp  == (5 * doy + 2) \div 153
        d   == doy - (153 * mp + 2) \div 5 + 1
        m   == IF mp < 10 THEN mp + 3 ELSE mp - 9
        y   == yoe + era * 400 + (IF m <= 2 THEN 1 ELSE 0)
    IN  [y |-> y, m |-> m, d |-> d]

\* ECMAScript MakeDay(year, month, date): the day number of the first of the
\* month plus date - 1, so that a date below 1 or past the month's end
\* carries into the neighbouring months
MakeDay(y, m, date) == DaysFromCivil(y, m, 1) + date - 1

(***************************************************************************)
(* Time zones.  A zone has a standard offset, a daylight-saving offset and *)
(* the intervals of UTC time (in hours) in which daylight saving applies.  *)
(***************************************************************************)
At(y, m, d, h) == DaysFromCivil(y, m, d) * 24 + h

TZ_UTC == [name |-> "UTC", std |-> 0, dst |-> 0, windows |-> {}]

TZ_Chicago ==
    [name |-> "America/Chicago", std |-> 0 - 6, dst |-> 0 - 5,
     windows |-> {[from |-> At(2023, 3, 12, 8), to |-> At(2023, 11, 5, 7)],
                  [from |-> At(2024, 3, 10, 8), to |-> At(2024, 11, 3, 7)]}]

TimeZones == {TZ_UTC, TZ_Chicago}

\* ECMAScript LocalTZA(t, true): the offset in effect at UTC time t
LocalTZA(zone, t) ==
    IF \E w \in zone.windows : w.from <= t /\ t < w.to THEN zone.dst ELSE zone.std

\* ECMAScript LocalTime(t)
LocalTime(zone, t) == t + LocalTZA(zone, t)

\* ECMAScript UTC(t): the UTC time of the local time tl, whose offset is the
\* one in effect at that local time (the one before the transition for a
\* local time that a transition skips or repeats)
UTC(zone, tl) ==
    IF \E w \in zone.windows : w.from + zone.dst <= tl /\ tl < w.to + zone.dst
    THEN tl - zone.dst
    ELSE tl - zone.std

(***************************************************************************)
(* Date objects: [valid, t], t the time value; an invalid Date has the     *)
(* time value NaN.                                                         *)
(***************************************************************************)
InvalidDate == [valid |-> FALSE, t |-> 0]

DateOf(t) == [valid |-> TRUE, t |-> t]

\* Date.prototype.getDate: the day of the month in local time
getDate(zone, date) == CivilFromDays(LocalTime(zone, date.t) \div 24).d

\* Date.prototype.setDate(dt): replaces the day of the month in local time,
\* keeping the local time of day; a NaN argument makes the Date invalid
setDate(zone, date, dt) ==
    IF ~date.valid \/ dt.nan THEN InvalidDate
    ELSE LET tl == LocalTime(zone, date.t)
             c  == CivilFromDays(tl \div 24)
         IN  DateOf(UTC(zone, MakeDay(c.y, c.m, dt.val) * 24 + (tl % 24)))

\* the date part of Date.prototype.toISOString: YYYY-MM-DD of the UTC date
\* (years outside 0..9999 are written with a sign and six digits)
IsoDate(c) ==
    LET year == IF c.y >= 0 /\ c.y <= 9999 THEN PadZero(ToDecimal(c.y), 4)
                ELSE <<IF c.y < 0 THEN "-" ELSE "+">>
                     \o PadZero(ToDecimal(IF c.y < 0 THEN 0 - c.y ELSE c.y), 6)
    IN  year \o <<"-">> \o PadZero(ToDecimal(c.m), 2) \o <<"-">> \o PadZero(ToDecimal(c.d), 2)

Returned(s) == [threw |-> FALSE, value |-> s]

Thrown(e) == [threw |-> TRUE, value |-> <<e>>]

\* date.toISOString().split('T')[0]: throws RangeError on an invalid Date
toISODatePart(date) ==
    IF ~date.valid THEN Thrown("RangeError: Invalid time value")
    ELSE Returned(IsoDate(CivilFromDays(date.t \div 24)))

\* JavaScript's - on numbers: NaN when either operand is NaN
Minus(a, b) == IF a.nan \/ b.nan THEN NaN ELSE Num(a.val - b.val)

(***************************************************************************)
(* Date normalisation (advertising endpoint).                              *)
(***************************************************************************)
formatDate(zone, clock, dateStr) ==
    IF dateStr = Str_today THEN toISODatePart(DateOf(clock))
    ELSE IF dateStr = Str_yesterday
         THEN LET yesterday == DateOf(clock)
              IN  toISODatePart(setDate(zone, yesterday,
                                        Minus(Num(getDate(zone, yesterday)), Num(1))))
    ELSE IF Includes(dateStr, Str_daysAgo)
         THEN LET days == parseInt(ReplaceFirst(dateStr, Str_daysAgo, <<>>))
                  date == DateOf(clock)
              IN  toISODatePart(setDate(zone, date, Minus(Num(getDate(zone, date)), days)))
    ELSE Returned(dateStr)

(***************************************************************************)
(* Date normalisation (social endpoint).                                   *)
(***************************************************************************)
formatDateForMetricool(zone, clock, dateStr) ==
    IF dateStr = Str_today THEN toISODatePart(DateOf(clock))
    ELSE IF dateStr = Str_yesterday
         THEN LET yesterday == DateOf(clock)
              IN  toISODatePart(setDate(zone, yesterday,
                                        Minus(Num(getDate(zone, yesterday)), Num(1))))
    ELSE IF Includes(dateStr, Str_daysAgo)
         THEN LET days == parseInt(ReplaceFirst(dateStr, Str_daysAgo, <<>>))
                  date == DateOf(clock)
              IN  toISODatePart(setDate(zone, date, Minus(Num(getDate(zone, date)), days)))
    ELSE Returned(dateStr)

(***************************************************************************)
(* Date tokens and clocks the model draws from.                            *)
(***************************************************************************)
DaysAgoToken(n) == ToDecimal(n) \o Str_daysAgo

\* the tokens the dashboard's selector offers (DATE_RANGES), every N up to
\* the bound, and tokens with a malformed prefix or no prefix
SelectorDays == {7, 30, 90, 180, 365}

RelativeDays == (0..MaxDaysAgo) \cup SelectorDays

Str_xdaysAgo == <<"x">> \o Str_daysAgo

Str_minutesAgo == <<"1", "5", "m", "i", "n", "u", "t", "e", "s", "A", "g", "o">>

Str_literal == <<"2", "0", "2", "4", "-", "0", "3", "-", "0", "8">>

MalformedTokens == {Str_xdaysAgo, Str_daysAgo}

DateTokens ==
    {Str_today, Str_yesterday, Str_literal, Str_minutesAgo}
        \cup {DaysAgoToken(n) : n \in RelativeDays} \cup MalformedTokens

\* reference instants: around a month end, a leap day, a year end and the
\* start of daylight saving, early, at midday and late in the UTC day
RefDays ==
    {DaysFromCivil(2024, 3, 15), DaysFromCivil(2024, 3, 1),
     DaysFromCivil(2024, 1, 1), DaysFromCivil(2023, 12, 31)}

RefHours == {0, 12, 23}

Clocks == {d * 24 + h : d \in RefDays, h \in RefHours}

NoCall == <<"<none>">>

DateInit ==
    /\ fdFn = "none"
    /\ fdArg = NoCall
    /\ fdRes = Returned(NoCall)

\* one call of the advertising endpoint's formatDate
CallFormatDate ==
    \E tok \in DateTokens :
        /\ fdFn' = "formatDate"
        /\ fdArg' = tok
        /\ fdRes' = formatDate(tz, now, tok)
        /\ UNCHANGED <<tz, now, env, parseVars, dashVars, reqVars>>

\* one call of the social endpoint's formatDateForMetricool
CallFormatDateForMetricool ==
    \E tok \in DateTokens :
        /\ fdFn' = "formatDateForMetricool"
        /\ fdArg' = tok
        /\ fdRes' = formatDateForMetricool(tz, now, tok)
        /\ UNCHANGED <<tz, now, env, parseVars, dashVars, reqVars>>

(***************************************************************************)
(* JavaScript values.                                                      *)
(***************************************************************************)
UNDEFINED == [undefined |-> TRUE]

JSNull == [null |-> TRUE]

NoCompanyId == "<undefined>"

\* a token check that tests for an absent token only
FalsyNullOnly(s) == s = NULL

\* !value of a string parameter: null and the empty string are falsy
Falsy(s) == s = NULL \/ s = <<>>

\* searchParams.get(name) || dflt
ParamOr(raw, dflt) == IF Falsy(raw) THEN dflt ELSE raw

Json(status, body) == [status |-> status, body |-> body]

NoResp == Json(0, [none |-> TRUE])

(***************************************************************************)
(* The tenant tables, one per provider.                                    *)
(***************************************************************************)
Id_ArtUnlimited == "7d52dc8e-c603-4c7e-ad27-60c15a86c12f"

Id_AlansRoofing == "fdb96a2c-a6ad-4238-9747-06b3ce7e8840"

Id_StraightLine == "61e7c938-fd52-4693-b79b-c2fb2349b61d"

\* a company id the identity provider issues that no table lists
Id_Unlisted == "0b1c2d3e-0000-4000-8000-unlisted"

PROPERTY_MAPPING ==
    ("default" :> [propertyId |-> "270323387", name |-> "Art Unlimited", adsCustomerId |-> "1196391424"])
    @@ (Id_ArtUnlimited :> [propertyId |-> "270323387", name |-> "Art Unlimited", adsCustomerId |-> "1196391424"])
    @@ (Id_AlansRoofing :> [propertyId |-> "266834246", name |-> "Alans Roofing", adsCustomerId |-> "9499823115"])
    @@ (Id_StraightLine :> [propertyId |-> "260457321", name |-> "Straight Line", adsCustomerId |-> "7116961973"])

CUSTOMER_MAPPING ==
    ("default" :> [customerId |-> "7116961973", name |-> "Art Unlimited", hasGoogleAds |-> FALSE])
    @@ (Id_ArtUnlimited :> [customerId |-> "1196391424", name |-> "Art Unlimited", hasGoogleAds |-> FALSE])
    @@ (Id_AlansRoofing :> [customerId |-> "9499823115", name |-> "Alans Roofing", hasGoogleAds |-> TRUE])
    @@ (Id_StraightLine :> [customerId |-> "7116961973", name |-> "Straight Line", hasGoogleAds |-> TRUE])

BLOG_MAPPING ==
    ("default" :> [blogId |-> "1920806", name |-> "Straightline Roofing"])
    @@ (Id_AlansRoofing :> [blogId |-> "1920864", name |-> "Alans Roofing"])
    @@ (Id_ArtUnlimited :> [blogId |-> "1914400", name |-> "Art Unlimited"])
    @@ ("CRANDALL_COMPANY_ID" :> [blogId |-> "4374791", name |-> "Crandall Roofing"])
    @@ ("MIDDLE_CREEK_COMPANY_ID" :> [blogId |-> "1929926", name |-> "Middle Creek"])
    @@ ("NEPA_COMPANY_ID" :> [blogId |-> "1920835", name |-> "NEPA Builders"])
    @@ ("QUANTUM_COMPANY_ID" :> [blogId |-> "1920899", name |-> "Quantum Roofing"])
    @@ ("SRW_COMPANY_ID" :> [blogId |-> "4069038", name |-> "SRW Products"])
    @@ ("STEVENS_COMPANY_ID" :> [blogId |-> "1920881", name |-> "Stevens Roofing"])
    @@ ("STRAIGHTLINE_COMPANY_ID" :> [blogId |-> "1920806", name |-> "Straightline Roofing"])
    @@ ("TITTLE_COMPANY_ID" :> [blogId |-> "3797430", name |-> "Tittle Brothers"])
    @@ ("TRENT_COMPANY_ID" :> [blogId |-> "4947746", name |-> "Trent Cotney"])
    @@ ("VANWEELDEN_COMPANY_ID" :> [blogId |-> "1920820", name |-> "VanWeelden"])

\* table[key]: undefined for a key the table does not hold
Lookup(table, key) == IF key \in DOMAIN table THEN table[key] ELSE UNDEFINED

\* an account lookup that falls back to another tenant's entry
MapAccountWrongFallback(table, cid) ==
    IF Lookup(table, cid) # UNDEFINED THEN Lookup(table, cid) ELSE Lookup(table, Id_AlansRoofing)

\* TABLE[companyId] || TABLE['default']
MapAccount(table, cid) ==
    IF Lookup(table, cid) # UNDEFINED THEN Lookup(table, cid) ELSE Lookup(table, "default")

(***************************************************************************)
(* The identity provider: what awaiting copilot.getTokenPayload?.() can    *)
(* produce.  It throws, yields no session, or yields a session with or     *)
(* without a company id.                                                   *)
(***************************************************************************)
IssuedCompanyIds == {Id_ArtUnlimited, Id_AlansRoofing, Id_Unlisted}

\* before the identity lookup has settled
NoSession == [kind |-> "pending", companyId |-> NoCompanyId]

IdentityOutcomes ==
    {[kind |-> "throws", companyId |-> NoCompanyId],
     [kind |-> "noSession", companyId |-> NoCompanyId],
     [kind |-> "session", companyId |-> NoCompanyId]}
        \cup {[kind |-> "session", companyId |-> c] : c \in IssuedCompanyIds}

\* the session's company id with no default
CompanyIdOfSessionOnly(o) == o.companyId

\* session?.companyId || 'default'
CompanyIdOf(o) ==
    IF o.kind = "noSession" \/ o.companyId = NoCompanyId \/ o.companyId = ""
    THEN "default" ELSE o.companyId

(***************************************************************************)
(* process.env                                                             *)
(***************************************************************************)
ALL_ENV ==
    {"COPILOT_API_KEY", "GA4_SERVICE_ACCOUNT", "GOOGLE_ADS_CLIENT_ID",
     "GOOGLE_ADS_CLIENT_SECRET", "GOOGLE_ADS_DEVELOPER_TOKEN",
     "GOOGLE_ADS_REFRESH_TOKEN", "GOOGLE_ADS_LOGIN_CUSTOMER_ID",
     "METRICOOL_API_TOKEN", "METRICOOL_USER_ID"}

\* the variables a deployment of the model may lack
MissableEnv == {"COPILOT_API_KEY", "GOOGLE_ADS_REFRESH_TOKEN", "METRICOOL_USER_ID"}

Environments == {ALL_ENV \ m : m \in SUBSET MissableEnv}

\* the server processes the endpoint model starts from: every environment
\* under UTC, and the full environment under every zone
Deployments ==
    {[tz |-> TZ_UTC, env |-> e] : e \in Environments}
        \cup {[tz |-> z, env |-> ALL_ENV] : z \in TimeZones}

\* Object.entries(requiredEnvVars).filter(([_, value]) => !value).map(([key]) => key)
RECURSIVE missingVars(_, _)
missingVars(required, e) ==
    IF required = <<>> THEN <<>>
    ELSE (IF Head(required).var \in e THEN <<>> ELSE <<Head(required).key>>)
         \o missingVars(Tail(required), e)

(***************************************************************************)
(* Requests.                                                               *)
(***************************************************************************)
Endpoints == {"ga4", "ads", "social"}

TokenParams == {NULL, <<>>, <<"t", "o", "k">>}

RequestRanges ==
    {[start |-> NULL, end |-> NULL],
     [start |-> DaysAgoToken(7), end |-> Str_today],
     [start |-> Str_today, end |-> DaysAgoToken(7)],
     [start |-> Str_xdaysAgo, end |-> Str_today]}

\* the clock readings of the endpoint model
RouteClocks == {At(2024, 3, 15, 23)}

Respond(r) == resp' = r /\ pc' = "done"

\* a request arrives at an endpoint: lines 15-17 of each handler read the
\* token and the date range, the range with its defaults
Receive ==
    /\ pc = "idle"
    /\ \E e \in Endpoints, tok \in TokenParams, r \in RequestRanges :
        /\ ep' = e
        /\ token' = tok
        /\ startDate' = ParamOr(r.start, DaysAgoToken(30))
        /\ endDate' = ParamOr(r.end, Str_today)
    /\ pc' = "entry"
    /\ companyId' = "<unset>"
    /\ config' = UNDEFINED
    /\ idCalls' = 0
    /\ session' = NoSession
    /\ issued' = <<>>
    /\ replies' = <<>>
    /\ resp' = NoResp
    /\ UNCHANGED <<tz, now, env, parseVars, dashVars, dateVars>>

\* the response is sent and the request's working state is discarded
Close ==
    /\ pc = "done"
    /\ ep' = "none"
    /\ pc' = "idle"
    /\ token' = NULL
    /\ startDate' = NULL
    /\ endDate' = NULL
    /\ companyId' = "<unset>"
    /\ config' = UNDEFINED
    /\ idCalls' = 0
    /\ session' = NoSession
    /\ issued' = <<>>
    /\ replies' = <<>>
    /\ resp' = NoResp
    /\ UNCHANGED <<tz, now, env, parseVars, dashVars, dateVars>>

(***************************************************************************)
(* The web-analytics endpoint.                                             *)
(***************************************************************************)
GA4_REPORTS == <<"main", "timeSeries", "pages", "sources", "devices", "countries">>

Chars_120 == <<"1", "2", "0">>

Chars_150 == <<"1", "5", "0">>

Chars_300 == <<"3", "0", "0">>

Chars_80 == <<"8", "0">>

Chars_61_5 == <<"6", "1", ".", "5">>

Chars_0_4321 == <<"0", ".", "4", "3", "2", "1">>

Chars_0_6 == <<"0", ".", "6">>

\* the i-th row the provider returns for a report
GA4Row(q, i) ==
    CASE q = "main" ->
            [dimensionValues |-> <<>>,
             metricValues |-> <<Chars_120, Chars_150, Chars_300, Chars_61_5,
                                Chars_0_4321, Chars_80, Chars_0_6>>]
      [] q = "timeSeries" ->
            [dimensionValues |-> <<"20240308">>,
             metricValues |-> <<Chars_120, Chars_150, Chars_300>>]
      [] q = "pages" ->
            [dimensionValues |-> <<"Home", "/">>, metricValues |-> <<Chars_300>>]
      [] q = "sources" ->
            [dimensionValues |-> <<"Organic Search">>, metricValues |-> <<Chars_150>>]
      [] q = "devices" ->
            [dimensionValues |-> <<"mobile">>, metricValues |-> <<Chars_80>>]
      [] OTHER ->
            [dimensionValues |-> <<"United States">>, metricValues |-> <<Chars_120>>]

\* what awaiting runReport can produce: a rejection, a reply without rows,
\* or a reply with 0..MaxRows rows
GA4Replies(q) ==
    {[ok |-> FALSE, error |-> "runReport failed: " \o q, hasRows |-> FALSE, rows |-> <<>>],
     [ok |-> TRUE, error |-> "", hasRows |-> FALSE, rows |-> <<>>]}
        \cup {[ok |-> TRUE, error |-> "", hasRows |-> TRUE,
               rows |-> [i \in 1..n |-> GA4Row(q, i)]] : n \in 0..MaxRows}

\* a request object that asks for the totals report once more
GA4QueryRepeated(k, cfg, sd, ed) ==
    [provider |-> "ga4", q |-> GA4_REPORTS[1], account |-> cfg.propertyId,
     from |-> sd, to |-> ed]

\* the request object of the k-th runReport call
GA4Query(k, cfg, sd, ed) ==
    [provider |-> "ga4", q |-> GA4_REPORTS[k], account |-> cfg.propertyId,
     from |-> sd, to |-> ed]

\* row.dimensionValues?.[i]?.value || dflt
DimOr(row, i, dflt) ==
    IF i <= Len(row.dimensionValues) /\ row.dimensionValues[i] # ""
    THEN row.dimensionValues[i] ELSE dflt

\* parseInt(row.metricValues?.[i]?.value || '0')
MetricInt(row, i) ==
    IF i <= Len(row.metricValues) /\ row.metricValues[i] # <<>>
    THEN parseInt(row.metricValues[i]) ELSE parseInt(<<"0">>)

\* a reply whose rows are all dropped
RowsOfDropped(reply) == <<>>

\* response.rows, or the empty list that rows?.map(...) || [] yields without it
RowsOf(reply) == IF reply.hasRows THEN reply.rows ELSE <<>>

GA4_timeSeriesRow(row) ==
    [date |-> DimOr(row, 1, ""), activeUsers |-> MetricInt(row, 1),
     sessions |-> MetricInt(row, 2), pageViews |-> MetricInt(row, 3)]

GA4_topPagesRow(row) ==
    [title |-> DimOr(row, 1, "Unknown"), path |-> DimOr(row, 2, "/"),
     views |-> MetricInt(row, 1)]

GA4_trafficSourcesRow(row) ==
    [source |-> DimOr(row, 1, "Unknown"), sessions |-> MetricInt(row, 1)]

GA4_devicesRow(row) ==
    [device |-> DimOr(row, 1, "Unknown"), users |-> MetricInt(row, 1)]

GA4_countriesRow(row) ==
    [country |-> DimOr(row, 1, "Unknown"), users |-> MetricInt(row, 1)]

(***************************************************************************)
(* Decimal numbers: mant / 10^scale.                                       *)
(***************************************************************************)
NaNDec == [nan |-> TRUE, mant |-> 0, scale |-> 0]

Dec(m, s) == [nan |-> FALSE, mant |-> m, scale |-> s]

RECURSIVE Pow10(_)
Pow10(n) == IF n = 0 THEN 1 ELSE 10 * Pow10(n - 1)

RECURSIVE TakeDigits(_)
TakeDigits(s) ==
    IF s = <<>> \/ Head(s) \notin DigitChars THEN <<>>
    ELSE <<Head(s)>> \o TakeDigits(Tail(s))

\* parseFloat(s) of a decimal literal without exponent: white space, an
\* optional sign, digits, an optional point and digits; NaN with no digit
parseFloat(s) ==
    LET t    == TrimLeft(s)
        neg  == t # <<>> /\ Head(t) = "-"
        body == IF t # <<>> /\ Head(t) \in {"-", "+"} THEN Tail(t) ELSE t
        ip   == TakeDigits(body)
        rest == SubSeq(body, Len(ip) + 1, Len(body))
        fp   == IF rest # <<>> /\ Head(rest) = "." THEN TakeDigits(Tail(rest)) ELSE <<>>
        m    == DigitsValue(ip \o fp, 0)
    IN  IF ip = <<>> /\ fp = <<>> THEN NaNDec
        ELSE Dec(IF neg THEN 0 - m ELSE m, Len(fp))

\* a rate that is not rescaled
TimesNotApplied(x, k) == x

\* x * k
Times(x, k) == IF x.nan THEN NaNDec ELSE Dec(x.mant * k, x.scale)

\* Number.prototype.toFixed(2): rounded to the nearest hundredth, written
\* with exactly two decimals
toFixed2(x) ==
    IF x.nan THEN <<"N", "a", "N">>
    ELSE LET a     == IF x.mant < 0 THEN 0 - x.mant ELSE x.mant
             p     == Pow10(x.scale)
             cents == (a * 200 + p) \div (2 * p)
         IN  (IF x.mant < 0 THEN <<"-">> ELSE <<>>)
             \o ToDecimal(cents \div 100) \o <<".">> \o PadZero(ToDecimal(cents % 100), 2)

\* parseFloat(row.metricValues?.[i]?.value || '0')
MetricFloat(row, i) ==
    IF i <= Len(row.metricValues) /\ row.metricValues[i] # <<>>
    THEN parseFloat(row.metricValues[i]) ELSE parseFloat(<<"0">>)

\* totals that are zero-filled whatever the reply
GA4_mainMetricsZeroFilled(reply) ==
    [activeUsers |-> parseInt(<<"0">>), sessions |-> parseInt(<<"0">>),
     pageViews |-> parseInt(<<"0">>)]

\* metricsResponse.rows?.[0], parsed, or null
GA4_mainMetrics(reply) ==
    IF ~reply.hasRows \/ reply.rows = <<>> THEN JSNull
    ELSE LET mainRow == reply.rows[1]
         IN  [activeUsers |-> MetricInt(mainRow, 1),
              sessions |-> MetricInt(mainRow, 2),
              pageViews |-> MetricInt(mainRow, 3),
              avgSessionDuration |-> MetricFloat(mainRow, 4),
              bounceRate |-> toFixed2(Times(MetricFloat(mainRow, 5), 100)),
              newUsers |-> MetricInt(mainRow, 6),
              engagementRate |-> toFixed2(Times(MetricFloat(mainRow, 7), 100))]

\* the success record of the web-analytics endpoint, from the six replies
GA4_Record(cid, cfg, sd, ed, rs) ==
    [companyId |-> cid,
     companyName |-> cfg.name,
     dateRange |-> [startDate |-> sd, endDate |-> ed],
     metrics |-> GA4_mainMetrics(rs[1]),
     timeSeries |-> [i \in 1..Len(RowsOf(rs[2])) |-> GA4_timeSeriesRow(RowsOf(rs[2])[i])],
     topPages |-> [i \in 1..Len(RowsOf(rs[3])) |-> GA4_topPagesRow(RowsOf(rs[3])[i])],
     trafficSources |-> [i \in 1..Len(RowsOf(rs[4])) |-> GA4_trafficSourcesRow(RowsOf(rs[4])[i])],
     devices |-> [i \in 1..Len(RowsOf(rs[5])) |-> GA4_devicesRow(RowsOf(rs[5])[i])],
     countries |-> [i \in 1..Len(RowsOf(rs[6])) |-> GA4_countriesRow(RowsOf(rs[6])[i])]]

\* a catch clause that answers with an empty success record
GA4_CatchEmptyRecord(message) ==
    Json(200, [metrics |-> JSNull, details |-> message])

\* the handler's catch clause
GA4_Catch(message) ==
    Json(500, [error |-> "Failed to fetch analytics data", details |-> message])

\* entry to the first await: the token check, then the identity lookup is issued
GA4_Entry ==
    /\ pc = "entry" /\ ep = "ga4"
    /\ IF Falsy(token)
       THEN /\ Respond(Json(401, [error |-> "No token provided"]))
            /\ UNCHANGED idCalls
       ELSE /\ idCalls' = idCalls + 1
            /\ pc' = "identity"
            /\ UNCHANGED resp
    /\ UNCHANGED <<tz, now, env, parseVars, dashVars, dateVars, ep, token, startDate, endDate,
                   companyId, config, session, issued, replies>>

\* the identity lookup settles: a rejection reaches the catch clause; otherwise
\* the tenant and its property are chosen and the totals report is issued
GA4_Identity ==
    /\ pc = "identity" /\ ep = "ga4"
    /\ \E o \in IdentityOutcomes :
        /\ session' = o
        /\ IF o.kind = "throws"
           THEN /\ Respond(GA4_Catch("getTokenPayload failed"))
                /\ UNCHANGED <<companyId, config, issued>>
           ELSE /\ companyId' = CompanyIdOf(o)
                /\ config' = MapAccount(PROPERTY_MAPPING, CompanyIdOf(o))
                /\ issued' = Append(issued,
                                    GA4Query(1, MapAccount(PROPERTY_MAPPING, CompanyIdOf(o)),
                                             startDate, endDate))
                /\ pc' = "report"
                /\ UNCHANGED resp
    /\ UNCHANGED <<tz, now, env, parseVars, dashVars, dateVars, ep, token, startDate, endDate, idCalls, replies>>

\* the report awaited settles: a rejection reaches the catch clause; otherwise
\* the next report is issued, or after the sixth the record is composed
GA4_Report ==
    /\ pc = "report" /\ ep = "ga4"
    /\ \E r \in GA4Replies(GA4_REPORTS[Len(issued)]) :
        /\ replies' = Append(replies, r)
        /\ IF ~r.ok
           THEN /\ Respond(GA4_Catch(r.error))
                /\ UNCHANGED issued
           ELSE IF Len(issued) < Len(GA4_REPORTS)
           THEN /\ issued' = Append(issued, GA4Query(Len(issued) + 1, config,
                                                     startDate, endDate))
                /\ UNCHANGED <<pc, resp>>
           ELSE /\ Respond(Json(200, GA4_Record(companyId, config, startDate, endDate,
                                                Append(replies, r))))
                /\ UNCHANGED issued
    /\ UNCHANGED <<tz, now, env, parseVars, dashVars, dateVars, ep, token, startDate, endDate,
                   companyId, config, idCalls, session>>

(***************************************************************************)
(* The advertising endpoint.                                               *)
(***************************************************************************)
ADS_REQUIRED ==
    <<[key |-> "clientId", var |-> "GOOGLE_ADS_CLIENT_ID"],
      [key |-> "clientSecret", var |-> "GOOGLE_ADS_CLIENT_SECRET"],
      [key |-> "developerToken", var |-> "GOOGLE_ADS_DEVELOPER_TOKEN"],
      [key |-> "refreshToken", var |-> "GOOGLE_ADS_REFRESH_TOKEN"],
      [key |-> "copilotApiKey", var |-> "COPILOT_API_KEY"]>>

ADS_QUERIES == <<"campaign", "metrics">>

\* the i-th row the provider returns for a query: numbers as the provider
\* gives them, cost in micros and the click-through rate as a fraction
AdsRow(q, i) ==
    [campaign |-> [id |-> "111", name |-> "Spring Sale", status |-> "ENABLED"],
     metrics |-> [impressions |-> Dec(1000, 0), clicks |-> Dec(34, 0),
                  ctr |-> Dec(342, 4), cost_micros |-> Dec(1500000, 0),
                  conversions |-> Dec(3, 0), conversions_value |-> Dec(4500, 2),
                  average_cpc |-> Dec(44117, 0)]]

\* what awaiting customer.query can produce: a rejection or 0..MaxRows rows
AdsReplies(q) ==
    {[ok |-> FALSE, error |-> "query failed: " \o q, rows |-> <<>>]}
        \cup {[ok |-> TRUE, error |-> "", rows |-> [i \in 1..n |-> AdsRow(q, i)]] :
                n \in 0..MaxRows}

AdsQuery(k, cfg, from, to) ==
    [provider |-> "ads", q |-> ADS_QUERIES[k], account |-> cfg.customerId,
     from |-> from, to |-> to]

\* a conversion that divides by a thousand
MicrosAsThousandths(x) == IF x.nan THEN NaNDec ELSE Dec(x.mant, x.scale + 3)

\* x / 1000000
Micros(x) == IF x.nan THEN NaNDec ELSE Dec(x.mant, x.scale + 6)

\* overallMetrics[0], parsed, or null
Ads_metrics(reply) ==
    IF reply.rows = <<>> THEN JSNull
    ELSE LET m == reply.rows[1].metrics
         IN  [impressions |-> m.impressions,
              clicks |-> m.clicks,
              ctr |-> Times(m.ctr, 100),
              cost |-> Micros(m.cost_micros),
              conversions |-> m.conversions,
              conversionsValue |-> m.conversions_value,
              averageCpc |-> Micros(m.average_cpc)]

Ads_campaignRow(row) ==
    [id |-> row.campaign.id,
     name |-> IF row.campaign.name = "" THEN "Unknown Campaign" ELSE row.campaign.name,
     status |-> row.campaign.status,
     impressions |-> row.metrics.impressions,
     clicks |-> row.metrics.clicks,
     ctr |-> Times(row.metrics.ctr, 100),
     cost |-> Micros(row.metrics.cost_micros),
     conversions |-> row.metrics.conversions,
     conversionsValue |-> row.metrics.conversions_value]

\* the success record of the advertising endpoint
Ads_Record(cid, cfg, sd, ed, campaigns, overallMetrics) ==
    [companyId |-> cid,
     companyName |-> cfg.name,
     customerId |-> cfg.customerId,
     dateRange |-> [startDate |-> sd, endDate |-> ed],
     metrics |-> Ads_metrics(overallMetrics),
     campaigns |-> [i \in 1..Len(campaigns.rows) |-> Ads_campaignRow(campaigns.rows[i])]]

\* a catch clause that answers with a generic message only
Ads_CatchGeneric(message, name) ==
    Json(500, [error |-> "Failed to fetch Google Ads data"])

\* the handler's outer catch clause
Ads_Catch(message, name) ==
    Json(500, [error |-> "Failed to fetch Google Ads data", details |-> message,
               errorType |-> name])

\* entry to the first await: the token check, the environment check, then
\* the identity lookup is issued
Ads_Entry ==
    /\ pc = "entry" /\ ep = "ads"
    /\ IF Falsy(token)
       THEN /\ Respond(Json(401, [error |-> "No token provided"]))
            /\ UNCHANGED idCalls
       ELSE IF Len(missingVars(ADS_REQUIRED, env)) > 0
       THEN /\ Respond(Json(500, [error |-> "Server configuration error",
                                  missing |-> missingVars(ADS_REQUIRED, env)]))
            /\ UNCHANGED idCalls
       ELSE /\ idCalls' = idCalls + 1
            /\ pc' = "identity"
            /\ UNCHANGED resp
    /\ UNCHANGED <<tz, now, env, parseVars, dashVars, dateVars, ep, token, startDate, endDate,
                   companyId, config, session, issued, replies>>

\* the identity lookup settles (a rejection is caught and leaves 'default');
\* then the customer config, the client, the customer instance, the two
\* dates, and both queries are issued
Ads_Identity ==
    /\ pc = "identity" /\ ep = "ads"
    /\ \E o \in IdentityOutcomes, clientOk \in BOOLEAN, customerOk \in BOOLEAN :
        LET cid  == IF o.kind = "throws" THEN "default" ELSE CompanyIdOf(o)
            cfg  == MapAccount(CUSTOMER_MAPPING, cid)
            fs   == formatDate(tz, now, startDate)
            fe   == formatDate(tz, now, endDate)
            formattedStartDate == StripHyphens(fs.value)
            formattedEndDate   == StripHyphens(fe.value)
        IN  /\ session' = o
            /\ companyId' = cid
            /\ config' = cfg
            /\ IF ~clientOk
               THEN /\ Respond(Json(500, [error |-> "Failed to initialize Google Ads client",
                                          details |-> "GoogleAdsApi failed"]))
                    /\ UNCHANGED issued
               ELSE IF ~customerOk
               THEN /\ Respond(Json(500, [error |-> "Failed to create customer instance",
                                          details |-> "Customer failed"]))
                    /\ UNCHANGED issued
               ELSE IF fs.threw
               THEN /\ Respond(Ads_Catch(fs.value[1], "RangeError"))
                    /\ UNCHANGED issued
               ELSE IF fe.threw
               THEN /\ Respond(Ads_Catch(fe.value[1], "RangeError"))
                    /\ UNCHANGED issued
               ELSE /\ issued' = issued \o <<AdsQuery(1, cfg, formattedStartDate, formattedEndDate),
                                              AdsQuery(2, cfg, formattedStartDate, formattedEndDate)>>
                    /\ pc' = "queries"
                    /\ UNCHANGED resp
    /\ UNCHANGED <<tz, now, env, parseVars, dashVars, dateVars, ep, token, startDate, endDate, idCalls, replies>>

\* Promise.all of the two queries settles: it rejects with the error of a
\* query that failed, or both results are parsed into the record
Ads_Queries ==
    /\ pc = "queries" /\ ep = "ads"
    /\ \E campaigns \in AdsReplies("campaign"), overallMetrics \in AdsReplies("metrics") :
        /\ replies' = <<campaigns, overallMetrics>>
        /\ IF ~campaigns.ok \/ ~overallMetrics.ok
           THEN \E queryError \in {r \in {campaigns, overallMetrics} : ~r.ok} :
                   Respond(Json(500, [error |-> "Failed to query Google Ads data",
                                      details |-> queryError.error,
                                      errorType |-> "Error",
                                      customerId |-> config.customerId,
                                      dateRange |-> [formattedStartDate |-> issued[1].from,
                                                     formattedEndDate |-> issued[1].to]]))
           ELSE Respond(Json(200, Ads_Record(companyId, config, startDate, endDate,
                                             campaigns, overallMetrics)))
    /\ UNCHANGED <<tz, now, env, parseVars, dashVars, dateVars, ep, token, startDate, endDate,
                   companyId, config, idCalls, session, issued>>

(***************************************************************************)
(* The social endpoint.                                                    *)
(***************************************************************************)
SOCIAL_REQUIRED ==
    <<[key |-> "metricoolToken", var |-> "METRICOOL_API_TOKEN"],
      [key |-> "metricoolUserId", var |-> "METRICOOL_USER_ID"],
      [key |-> "copilotApiKey", var |-> "COPILOT_API_KEY"]>>

SOCIAL_CALLS == <<"/admin/simpleProfiles", "/statistics/summary", "/posts/list">>

\* what awaiting callMetricoolApi can produce: the parsed body, or a
\* rejection (the fetch fails, the status is not OK, the body does not parse)
MetricoolReplies(endpoint) ==
    {[ok |-> TRUE, payload |-> [from |-> endpoint]],
     [ok |-> FALSE, payload |-> [error |-> "fetch failed"]],
     [ok |-> FALSE, payload |-> [error |-> "Metricool API error: 500"]]}

SocialCall(k, cfg, from, to) ==
    [provider |-> "social", q |-> SOCIAL_CALLS[k], account |-> cfg.blogId,
     from |-> from, to |-> to]

\* a call whose rejection is not turned into null
OrNullKeepsRejection(reply) == reply.payload

\* callMetricoolApi(...).catch(e => null)
OrNull(reply) == IF reply.ok THEN reply.payload ELSE JSNull

\* the success record of the social endpoint
Social_Record(cid, cfg, sd, ed, profileData, statsData, postsData) ==
    [companyId |-> cid,
     companyName |-> cfg.name,
     blogId |-> cfg.blogId,
     dateRange |-> [startDate |-> sd, endDate |-> ed],
     profile |-> profileData,
     stats |-> statsData,
     posts |-> postsData]

\* the handler's outer catch clause
Social_Catch(message, name) ==
    Json(500, [error |-> "Failed to fetch Metricool data", details |-> message,
               errorType |-> name])

\* entry to the first await: the token check, the environment check, then
\* the identity lookup is issued
Social_Entry ==
    /\ pc = "entry" /\ ep = "social"
    /\ IF Falsy(token)
       THEN /\ Respond(Json(401, [error |-> "No token provided"]))
            /\ UNCHANGED idCalls
       ELSE IF Len(missingVars(SOCIAL_REQUIRED, env)) > 0
       THEN /\ Respond(Json(500, [error |-> "Server configuration error",
                                  missing |-> missingVars(SOCIAL_REQUIRED, env)]))
            /\ UNCHANGED idCalls
       ELSE /\ idCalls' = idCalls + 1
            /\ pc' = "identity"
            /\ UNCHANGED resp
    /\ UNCHANGED <<tz, now, env, parseVars, dashVars, dateVars, ep, token, startDate, endDate,
                   companyId, config, session, issued, replies>>

\* the identity lookup settles (a rejection is caught and leaves 'default');
\* then the blog config and the fan-out: the profile call is issued, the two
\* dates of the statistics call are normalised, and the statistics and the
\* posts calls are issued
Social_Identity ==
    /\ pc = "identity" /\ ep = "social"
    /\ \E o \in IdentityOutcomes :
        LET cid  == IF o.kind = "throws" THEN "default" ELSE CompanyIdOf(o)
            cfg  == MapAccount(BLOG_MAPPING, cid)
            from == formatDateForMetricool(tz, now, startDate)
            to   == formatDateForMetricool(tz, now, endDate)
        IN  /\ session' = o
            /\ companyId' = cid
            /\ config' = cfg
            /\ IF from.threw
               THEN /\ issued' = Append(issued, SocialCall(1, cfg, NULL, NULL))
                    /\ Respond(Social_Catch(from.value[1], "RangeError"))
               ELSE IF to.threw
               THEN /\ issued' = Append(issued, SocialCall(1, cfg, NULL, NULL))
                    /\ Respond(Social_Catch(to.value[1], "RangeError"))
               ELSE /\ issued' = issued \o <<SocialCall(1, cfg, NULL, NULL),
                                              SocialCall(2, cfg, from.value, to.value),
                                              SocialCall(3, cfg, NULL, NULL)>>
                    /\ pc' = "calls"
                    /\ UNCHANGED resp
    /\ UNCHANGED <<tz, now, env, parseVars, dashVars, dateVars, ep, token, startDate, endDate, idCalls, replies>>

\* Promise.all of the three calls settles: each call's rejection was turned
\* into null by its own catch, and the record is composed
Social_Calls ==
    /\ pc = "calls" /\ ep = "social"
    /\ \E p \in MetricoolReplies(SOCIAL_CALLS[1]), s \in MetricoolReplies(SOCIAL_CALLS[2]),
          l \in MetricoolReplies(SOCIAL_CALLS[3]) :
        /\ replies' = <<p, s, l>>
        /\ Respond(Json(200, Social_Record(companyId, config, startDate, endDate,
                                           OrNull(p), OrNull(s), OrNull(l))))
    /\ UNCHANGED <<tz, now, env, parseVars, dashVars, dateVars, ep, token, startDate, endDate,
                   companyId, config, idCalls, session, issued>>

(***************************************************************************)
(* The dashboard: the GA4Dashboard component and the two panels it nests,  *)
(* GoogleAdsMetrics and MetricoolMetrics.  A component is [mounted, gen,   *)
(* data, loading, error]; gen counts its mounts, so that a response of a   *)
(* fetch started by an instance that was unmounted since is told apart.    *)
(* An event and the renders and effects it causes are one step.            *)
(***************************************************************************)
NoError == "<null>"

DATE_RANGES ==
    <<[label |-> "Today", start |-> Str_today, end |-> Str_today],
      [label |-> "Yesterday", start |-> Str_yesterday, end |-> Str_yesterday],
      [label |-> "Last 7 Days", start |-> DaysAgoToken(7), end |-> Str_today],
      [label |-> "Last 30 Days", start |-> DaysAgoToken(30), end |-> Str_today],
      [label |-> "Last 90 Days", start |-> DaysAgoToken(90), end |-> Str_today],
      [label |-> "Last 6 Months", start |-> DaysAgoToken(180), end |-> Str_today],
      [label |-> "Last Year", start |-> DaysAgoToken(365), end |-> Str_today]>>

\* DATE_RANGES[index].value, the index counted from 0
RangeValue(index) == DATE_RANGES[index + 1]

\* the ranges the model's user picks
PickedRanges == {2, 3}

\* useState(null), useState(true), useState(null)
Unmounted(gen) ==
    [mounted |-> FALSE, gen |-> gen, data |-> JSNull, loading |-> TRUE, error |-> NoError]

Mounted(gen) ==
    [mounted |-> TRUE, gen |-> gen, data |-> JSNull, loading |-> TRUE, error |-> NoError]

\* what GA4Dashboard renders
GA4Dashboard_View(c) ==
    IF c.loading THEN "loading"
    ELSE IF c.error # NoError THEN "error"
    ELSE IF c.data = JSNull \/ c.data.metrics = JSNull THEN "noData"
    ELSE "metrics"

\* what GoogleAdsMetrics renders
GoogleAdsMetrics_View(c) ==
    IF c.loading THEN "loading"
    ELSE IF c.data # JSNull /\ "hasGoogleAds" \in DOMAIN c.data /\ c.data.hasGoogleAds = FALSE
         THEN "notConfigured"
    ELSE IF c.error # NoError THEN "error"
    ELSE IF c.data = JSNull \/ c.data.metrics = JSNull THEN "noData"
    ELSE "metrics"

\* what MetricoolMetrics renders
MetricoolMetrics_View(c) ==
    IF c.loading THEN "loading"
    ELSE IF c.error # NoError THEN "error"
    ELSE IF c.data = JSNull THEN "noData"
    ELSE "metrics"

\* a component whose only early return is the loading one
RendersPanelsUnlessLoading(c) == ~c.loading

\* GA4Dashboard renders its two nested panels only past its three early returns
RendersPanels(c) == GA4Dashboard_View(c) = "metrics"

Panels == {"ga4", "ads", "social"}

NestedPanels == {"ads", "social"}

\* `token=${token}` with token = searchParams.get('token'): null is sent as
\* the four characters null
TemplateToken(t) == IF t = NULL THEN <<"n", "u", "l", "l">> ELSE t

\* the fetch a panel's effect starts: the n-th of the panel, by its instance gen
PanelFetch(p, gen, n, tok, range) ==
    [panel |-> p, gen |-> gen, n |-> n, token |-> TemplateToken(tok),
     start |-> range.start, end |-> range.end]

\* a reply of n rows to every report of a request
GA4RowsReplies(n) ==
    [k \in 1..6 |-> [ok |-> TRUE, error |-> "", hasRows |-> TRUE,
                     rows |-> [i \in 1..n |-> GA4Row(GA4_REPORTS[k], i)]]]

AdsRowsReply(q, n) ==
    [ok |-> TRUE, error |-> "", rows |-> [i \in 1..n |-> AdsRow(q, i)]]

\* the success records the web-analytics endpoint answers a panel with, by
\* the number of rows of every reply, before the requested range is put in
GA4_PanelRecords ==
    [n \in 0..1 |-> GA4_Record("default", PROPERTY_MAPPING["default"], NULL, NULL,
                               GA4RowsReplies(n))]

\* fetch() or response.json() rejects
Rejected(message) == [rejected |-> TRUE, status |-> 0, body |-> [message |-> message]]

Arrived(r) == [rejected |-> FALSE, status |-> r.status, body |-> r.body]

\* what a panel's fetch can settle with: the endpoint's 401 for an empty
\* token; otherwise a success record with or without metrics, the endpoint's
\* 500, a non-OK reply of the platform without an error field; or a rejection
FetchOutcomes(f) ==
    {Rejected("Failed to fetch")}
    \cup
    (IF Falsy(f.token)
     THEN {Arrived(Json(401, [error |-> "No token provided"]))}
     ELSE {Arrived(Json(504, [message |-> "Gateway Timeout"]))}
          \cup
          (CASE f.panel = "ga4" ->
                  {Arrived(Json(200, [GA4_PanelRecords[n] EXCEPT
                                          !.dateRange = [startDate |-> f.start,
                                                         endDate |-> f.end]])) :
                       n \in 0..1}
                  \cup {Arrived(GA4_Catch("runReport failed: main"))}
             [] f.panel = "ads" ->
                  {Arrived(Json(200, Ads_Record("default", CUSTOMER_MAPPING["default"],
                                                f.start, f.end,
                                                AdsRowsReply("campaign", n),
                                                AdsRowsReply("metrics", n)))) :
                       n \in 0..1}
                  \cup {Arrived(Ads_Catch("query failed: metrics", "Error"))}
             [] f.panel = "social" ->
                  {Arrived(Json(200, Social_Record("default", BLOG_MAPPING["default"],
                                                   f.start, f.end,
                                                   OrNull(r), OrNull(r), OrNull(r)))) :
                       r \in MetricoolReplies(SOCIAL_CALLS[1])}
                  \cup {Arrived(Social_Catch("Invalid time value", "RangeError"))}))

\* response.ok
ResponseOk(o) == ~o.rejected /\ o.status \in 200..299

DefaultMessage(p) ==
    CASE p = "ga4" -> "Failed to fetch metrics"
      [] p = "ads" -> "Failed to fetch Google Ads data"
      [] p = "social" -> "Failed to fetch Metricool data"

\* err.message in the catch clause of the fetch function
ErrorMessage(p, o) ==
    IF o.rejected THEN o.body.message
    ELSE IF "error" \in DOMAIN o.body /\ o.body.error # "" THEN o.body.error
    ELSE DefaultMessage(p)

\* setLoading(true); setError(null): where every fetch function starts
Fetching(c) == [c EXCEPT !.loading = TRUE, !.error = NoError]

\* a fetch function without its finally clause
SettledKeepsLoading(p, c, o) ==
    IF ResponseOk(o)
    THEN [c EXCEPT !.data = o.body, !.loading = FALSE]
    ELSE [c EXCEPT !.error = ErrorMessage(p, o)]

\* the rest of the fetch function, run when the fetch has settled
Settled(p, c, o) ==
    IF ResponseOk(o)
    THEN [c EXCEPT !.data = o.body, !.loading = FALSE]
    ELSE [c EXCEPT !.error = ErrorMessage(p, o), !.loading = FALSE]

\* the page before it is opened
DashOff ==
    /\ searchToken = NULL
    /\ selectedRange = 3
    /\ panel = [p \in Panels |-> Unmounted(0)]
    /\ inflight = {}
    /\ started = [p \in Panels |-> 0]

\* the page opened: GA4Dashboard is mounted and its effect has started the
\* first fetch; it renders its loading view, so no nested panel is mounted
DashInit ==
    /\ searchToken \in TokenParams
    /\ selectedRange = 3
    /\ panel = [p \in Panels |-> IF p = "ga4" THEN Mounted(1) ELSE Unmounted(0)]
    /\ inflight = {PanelFetch("ga4", 1, 1, searchToken, RangeValue(3))}
    /\ started = [p \in Panels |-> IF p = "ga4" THEN 1 ELSE 0]

\* a nested panel that asks again for the range it was mounted with
RefetchMountRange(p, tok, r) ==
    PanelFetch(p, panel[p].gen, started[p] + 1, tok, RangeValue(3))

\* the effect of a mounted nested panel runs again: one more fetch by the
\* same instance
Refetch(p, tok, r) ==
    PanelFetch(p, panel[p].gen, started[p] + 1, tok, RangeValue(r))

\* a nested panel is mounted and its effect runs: the first fetch of a new
\* instance
FirstFetch(p, tok, r) ==
    PanelFetch(p, panel[p].gen + 1, started[p] + 1, tok, RangeValue(r))

\* GA4Dashboard's effect runs again, for a token and a range: the nested
\* panels, rendered once more with the new props before the effect runs,
\* have started their fetches when setLoading(true) unmounts them
GA4_Refetch(tok, r) ==
    /\ started["ga4"] < MaxFetches
    /\ LET rerendered == {p \in NestedPanels : panel[p].mounted}
       IN  /\ inflight' = inflight
                   \cup {PanelFetch("ga4", 1, started["ga4"] + 1, tok, RangeValue(r))}
                   \cup {Refetch(p, tok, r) : p \in rerendered}
           /\ panel' = [p \in Panels |->
                           IF p = "ga4" THEN Fetching(panel[p])
                           ELSE Unmounted(panel[p].gen)]
           /\ started' = [p \in Panels |->
                           IF p = "ga4" \/ p \in rerendered THEN started[p] + 1
                           ELSE started[p]]

\* the user picks another range in the select, which only the metrics view
\* renders
SelectRange ==
    /\ RendersPanels(panel["ga4"])
    /\ \E r \in PickedRanges \ {selectedRange} :
        /\ selectedRange' = r
        /\ GA4_Refetch(searchToken, r)
    /\ UNCHANGED <<tz, now, env, parseVars, dateVars, reqVars, searchToken>>

\* the search parameters of the page change
Navigate ==
    /\ \E t \in TokenParams \ {searchToken} :
        /\ searchToken' = t
        /\ GA4_Refetch(t, selectedRange)
    /\ UNCHANGED <<tz, now, env, parseVars, dateVars, reqVars, selectedRange>>

\* a fetch of GA4Dashboard settles; the component renders again, and past
\* its early returns it renders the nested panels: with new dateRange
\* objects if they are mounted, so that their effects run again
GA4_Settle ==
    /\ \E f \in {g \in inflight : g.panel = "ga4"} : \E o \in FetchOutcomes(f) :
        LET c == Settled("ga4", panel["ga4"], o)
        IN  /\ panel' = [p \in Panels |->
                            IF p = "ga4" THEN c
                            ELSE IF ~RendersPanels(c) THEN Unmounted(panel[p].gen)
                            ELSE IF panel[p].mounted THEN Fetching(panel[p])
                            ELSE Mounted(panel[p].gen + 1)]
            /\ inflight' = (inflight \ {f})
                    \cup (IF RendersPanels(c)
                          THEN {IF panel[p].mounted
                                THEN Refetch(p, searchToken, selectedRange)
                                ELSE FirstFetch(p, searchToken, selectedRange) :
                                    p \in NestedPanels}
                          ELSE {})
            /\ started' = [p \in Panels |->
                            IF p # "ga4" /\ RendersPanels(c) THEN started[p] + 1
                            ELSE started[p]]
    /\ UNCHANGED <<tz, now, env, parseVars, dateVars, reqVars, searchToken, selectedRange>>

\* a fetch of a nested panel settles: the state of the instance that started
\* it is set, if that instance is still mounted
Nested_Settle ==
    /\ \E f \in {g \in inflight : g.panel \in NestedPanels} : \E o \in FetchOutcomes(f) :
        /\ inflight' = inflight \ {f}
        /\ panel' = IF panel[f.panel].mounted /\ panel[f.panel].gen = f.gen
                    THEN [panel EXCEPT ![f.panel] = Settled(f.panel, @, o)]
                    ELSE panel
    /\ UNCHANGED <<tz, now, env, parseVars, dateVars, reqVars, searchToken, selectedRange, started>>

(***************************************************************************)
(* Reply parsing alone: the totals row or a campaign row of a provider     *)
(* reply is drawn from a set of rows and parsed.                           *)
(***************************************************************************)
\* rows of the advertising provider: cost and average cost-per-click in
\* micros, the click-through rate a fraction (here in ten-thousandths)
AdsSampleRows ==
    {[campaign |-> [id |-> "111", name |-> "Spring Sale", status |-> "ENABLED"],
      metrics |-> [impressions |-> Dec(1000, 0), clicks |-> Dec(34, 0),
                   ctr |-> Dec(c, 4), cost_micros |-> Dec(m, 0),
                   conversions |-> Dec(3, 0), conversions_value |-> Dec(4500, 2),
                   average_cpc |-> Dec(a, 0)]] :
        c \in {0, 1, 342, 5000, 10000},
        m \in {0, 1, 44117, 999999, 1500000},
        a \in {0, 44117}}

\* totals rows of the web-analytics provider; the two rates are written as
\* the provider writes them: every fraction of FractionDigits decimals, 1,
\* and fractions with more decimals
GA4SampleRows ==
    LET fractions ==
            {<<"0", ".">> \o PadZero(ToDecimal(k), FractionDigits) :
                k \in 0..(Pow10(FractionDigits) - 1)}
                \cup {<<"1">>, Chars_0_6, Chars_0_4321,
                      <<"0", ".", "4", "3", "2", "1", "5">>,
                      <<"0", ".", "9", "9", "9", "9", "9">>,
                      <<"0", ".", "0", "0", "4", "9", "9">>}
        samples == {Chars_0_6, Chars_0_4321, <<"1">>}
    IN  {[dimensionValues |-> <<>>,
          metricValues |-> <<Chars_120, Chars_150, Chars_300, Chars_61_5,
                             r[1], Chars_80, r[2]>>] :
            r \in (fractions \X samples) \cup (samples \X fractions)}

ParseInit ==
    /\ cvFn = "none"
    /\ cvArg = [none |-> TRUE]
    /\ cvRes = [none |-> TRUE]

\* the advertising endpoint parses the first row of the totals reply
ParseAdsTotals ==
    /\ cvFn = "none"
    /\ \E row \in AdsSampleRows :
        /\ cvFn' = "adsTotals"
        /\ cvArg' = row
        /\ cvRes' = Ads_metrics([ok |-> TRUE, error |-> "", rows |-> <<row>>])
        /\ UNCHANGED <<tz, now, env, dateVars, reqVars, dashVars>>

\* the advertising endpoint parses a row of the campaign reply
ParseAdsCampaign ==
    /\ cvFn = "none"
    /\ \E row \in AdsSampleRows :
        /\ cvFn' = "adsCampaign"
        /\ cvArg' = row
        /\ cvRes' = Ads_campaignRow(row)
        /\ UNCHANGED <<tz, now, env, dateVars, reqVars, dashVars>>

\* the web-analytics endpoint parses the first row of the totals reply
ParseGA4Totals ==
    /\ cvFn = "none"
    /\ \E row \in GA4SampleRows :
        /\ cvFn' = "ga4Totals"
        /\ cvArg' = row
        /\ cvRes' = GA4_mainMetrics([ok |-> TRUE, error |-> "", hasRows |-> TRUE,
                                     rows |-> <<row>>])
        /\ UNCHANGED <<tz, now, env, dateVars, reqVars, dashVars>>

vars == <<tz, now, fdFn, fdArg, fdRes, env, ep, pc, token, startDate, endDate,
          companyId, config, idCalls, session, issued, replies, resp,
          searchToken, selectedRange, panel, inflight, started, cvFn, cvArg, cvRes>>

ReqInit ==
    /\ ep = "none"
    /\ pc = "idle"
    /\ token = NULL
    /\ startDate = NULL
    /\ endDate = NULL
    /\ companyId = "<unset>"
    /\ config = UNDEFINED
    /\ idCalls = 0
    /\ session = NoSession
    /\ issued = <<>>
    /\ replies = <<>>
    /\ resp = NoResp

(***************************************************************************)
(* The endpoints: one request at a time (a request shares no state with    *)
(* another), each handler stepping from await to await.                    *)
(***************************************************************************)
Init ==
    /\ \E d \in Deployments : tz = d.tz /\ env = d.env
    /\ now \in RouteClocks
    /\ DateInit
    /\ ReqInit
    /\ DashOff
    /\ ParseInit

Next ==
    \/ Receive
    \/ Close
    \/ GA4_Entry
    \/ GA4_Identity
    \/ GA4_Report
    \/ Ads_Entry
    \/ Ads_Identity
    \/ Ads_Queries
    \/ Social_Entry
    \/ Social_Identity
    \/ Social_Calls

Spec == Init /\ [][Next]_vars

(***************************************************************************)
(* Date normalisation alone: the clock and the zone are drawn at the       *)
(* start, and each step is one call.                                       *)
(***************************************************************************)
InitDate ==
    /\ tz \in TimeZones
    /\ now \in Clocks
    /\ env = ALL_ENV
    /\ DateInit
    /\ ReqInit
    /\ DashOff
    /\ ParseInit

NextDate == CallFormatDate \/ CallFormatDateForMetricool

SpecDate == InitDate /\ [][NextDate]_vars

(***************************************************************************)
(* The dashboard alone: the endpoints are what a fetch settles with.       *)
(***************************************************************************)
InitDash ==
    /\ tz = TZ_UTC
    /\ now \in RouteClocks
    /\ env = ALL_ENV
    /\ DateInit
    /\ ReqInit
    /\ DashInit
    /\ ParseInit

NextDash == SelectRange \/ Navigate \/ GA4_Settle \/ Nested_Settle

SpecDash == InitDash /\ [][NextDash]_vars

\* the dashboard when every HTTP call settles: each await of fetch and of
\* response.json() resumes its fetch function
SpecDashLive ==
    SpecDash /\ WF_vars(GA4_Settle) /\ WF_vars(Nested_Settle)

(***************************************************************************)
(* Reply parsing alone.                                                    *)
(***************************************************************************)
InitParse ==
    /\ tz = TZ_UTC
    /\ now \in RouteClocks
    /\ env = ALL_ENV
    /\ DateInit
    /\ ReqInit
    /\ DashOff
    /\ ParseInit

NextParse == ParseAdsTotals \/ ParseAdsCampaign \/ ParseGA4Totals

SpecParse == InitParse /\ [][NextParse]_vars

(***************************************************************************)
(* Properties of the endpoints.                                            *)
(***************************************************************************)

\* C1: on every provider endpoint, a request whose token parameter is absent
\* or empty ends with status 401, and neither an identity lookup nor a
\* provider query is issued for it.
C1_NoTokenIs401 ==
    (ep # "none" /\ pc # "entry" /\ (token = NULL \/ token = <<>>))
        => /\ pc = "done"
           /\ resp.status = 401
           /\ idCalls = 0
           /\ issued = <<>>

C1_Witness ==
    /\ ep = "social" /\ pc = "done" /\ token = <<>>
    /\ resp.status = 401 /\ idCalls = 0 /\ issued = <<>>

\* C3: a request of the advertising endpoint whose account config has
\* hasGoogleAds false issues no provider query and ends with the
\* not-configured result, a success carrying hasGoogleAds false.
C3_NotConfiguredIssuesNothing ==
    (ep = "ads" /\ config # UNDEFINED /\ ~config.hasGoogleAds)
        => /\ issued = <<>>
           /\ pc = "done"
           /\ resp.status = 200
           /\ "hasGoogleAds" \in DOMAIN resp.body
           /\ resp.body.hasGoogleAds = FALSE

\* C4: in the web-analytics endpoint, when the totals report succeeds and
\* the top-pages report fails, the request ends with a success record whose
\* topPages is empty and whose metrics are those of the totals reply.
C4_TopPagesFailureIsSoft ==
    (ep = "ga4" /\ Len(replies) >= 3 /\ replies[1].ok /\ ~replies[3].ok)
        => /\ resp.status = 200
           /\ resp.body.topPages = <<>>
           /\ resp.body.metrics = GA4_mainMetrics(replies[1])

\* C5: in the web-analytics endpoint, when the totals report fails the
\* request ends with a failure (status 500 with an error message), whatever
\* the breakdown reports would have returned.
C5_TotalsFailureFails ==
    (ep = "ga4" /\ Len(replies) >= 1 /\ ~replies[1].ok)
        => /\ pc = "done"
           /\ resp.status = 500
           /\ "error" \in DOMAIN resp.body
           /\ resp.body.error # ""

C5_Witness ==
    /\ ep = "ga4" /\ pc = "done" /\ Len(replies) = 1 /\ ~replies[1].ok
    /\ resp.status = 500

\* C6: in the social endpoint, once the three calls of a request have
\* settled the request ends with a success record in which the section of
\* every call that failed is null and the section of every call that
\* succeeded is that call's payload, for every subset of failing calls.
C6_SocialSectionsIndependent ==
    (ep = "social" /\ pc = "done" /\ Len(replies) = 3)
        => /\ resp.status = 200
           /\ LET sections == <<resp.body.profile, resp.body.stats, resp.body.posts>>
              IN  \A k \in 1..3 :
                      sections[k] = IF replies[k].ok THEN replies[k].payload
                                                      ELSE [null |-> TRUE]

C6_Witness ==
    /\ ep = "social" /\ pc = "done" /\ Len(replies) = 3
    /\ replies[1].ok /\ ~replies[2].ok /\ replies[3].ok
    /\ resp.status = 200
    /\ resp.body.stats = [null |-> TRUE]
    /\ resp.body.posts = replies[3].payload

\* C7: on every provider endpoint, when the token is present and the
\* identity lookup throws or yields no company id, the request goes on with
\* the tenant id "default" and does not end with an error response for it.
C7_IdentityFailureFallsBack ==
    (ep # "none"
        /\ (session.kind = "throws"
               \/ (session.kind \in {"noSession", "session"}
                      /\ session.companyId = NoCompanyId)))
        => /\ companyId = "default"
           /\ ~(pc = "done" /\ resp.status = 500 /\ issued = <<>> /\ ep = "ga4")

C9_RelativeTokensAreExact ==
    \A n \in RelativeDays :
        (fdFn # "none"
            /\ \/ fdArg = DaysAgoToken(n)
               \/ (n = 0 /\ fdArg = Str_today)
               \/ (n = 1 /\ fdArg = Str_yesterday))
            => fdRes = [threw |-> FALSE,
                        value |-> IsoDate(CivilFromDays((now \div 24) - n))]

\* C10: a token that contains daysAgo behind a malformed prefix is returned
\* as the literal token, unmodified, and the call does not throw.
C10_MalformedTokenPassesThrough ==
    (fdFn # "none" /\ fdArg \in MalformedTokens)
        => fdRes = [threw |-> FALSE, value |-> fdArg]

(***************************************************************************)
(* Properties of the dashboard.                                            *)
(***************************************************************************)

\* C2: when GA4Dashboard shows the error of its own request, the
\* advertising panel and the social panel are mounted all the same (and so
\* issue their requests and render their results).
C2_PanelsSurviveAnalyticsFailure ==
    GA4Dashboard_View(panel["ga4"]) = "error"
        => \A p \in NestedPanels : panel[p].mounted

\* C11: every provider query that carries date bounds carries literal
\* calendar dates in the provider's format (YYYYMMDD for advertising,
\* YYYY-MM-DD for web-analytics and social); a relative token (today,
\* yesterday, {N}daysAgo) is never forwarded to a provider.
C11_ProvidersGetLiteralDates ==
    \A i \in 1..Len(issued) :
        issued[i].from # NULL =>
            \A s \in {issued[i].from, issued[i].to} :
                LET hyphens == IF issued[i].provider = "ads" THEN {} ELSE {5, 8}
                    length  == IF issued[i].provider = "ads" THEN 8 ELSE 10
                IN  /\ Len(s) = length
                    /\ \A j \in 1..Len(s) :
                          IF j \in hyphens THEN s[j] = "-" ELSE s[j] \in DigitChars

\* C12: the dateRange of every success record is the normalised range: a
\* request with range (7daysAgo, today) on 2024-03-15 is answered with
\* dateRange (2024-03-08, 2024-03-15); and in the web-analytics record
\* metrics.activeUsers is the value the totals report returned (120).
C12_RecordHoldsResolvedRange ==
    (pc = "done" /\ resp.status = 200
        /\ startDate = DaysAgoToken(7) /\ endDate = Str_today
        /\ now \div 24 = DaysFromCivil(2024, 3, 15))
        => /\ resp.body.dateRange =
                  [startDate |-> <<"2", "0", "2", "4", "-", "0", "3", "-", "0", "8">>,
                   endDate |-> <<"2", "0", "2", "4", "-", "0", "3", "-", "1", "5">>]
           /\ (ep = "ga4" /\ resp.body.metrics # [null |-> TRUE])
                  => resp.body.metrics.activeUsers = [nan |-> FALSE, val |-> 120]

(***************************************************************************)
(* Properties of reply parsing.  A number is a record [nan, mant, scale]   *)
(* of value mant / 10^scale; a string is a sequence of characters.         *)
(***************************************************************************)

\* C13 (as amended): in the advertising endpoint, for the account totals and
\* for every campaign row, cost is cost_micros divided by 1,000,000 and the
\* click-through rate is the provider's fraction times 100, both as numbers
\* (1500000 micros gives 1.5; 0.0342 gives 3.42); the totals' average
\* cost-per-click is likewise divided by 1,000,000.
C13_AdsUnitsAsNumbers ==
    cvFn \in {"adsTotals", "adsCampaign"}
        => LET m == cvArg.metrics
           IN  /\ cvRes.cost = [nan |-> FALSE, mant |-> m.cost_micros.mant,
                                scale |-> m.cost_micros.scale + 6]
               /\ cvRes.ctr = [nan |-> FALSE, mant |-> m.ctr.mant * 100,
                               scale |-> m.ctr.scale]
               /\ cvFn = "adsTotals"
                      => cvRes.averageCpc = [nan |-> FALSE, mant |-> m.average_cpc.mant,
                                             scale |-> m.average_cpc.scale + 6]
               /\ (m.cost_micros.mant = 1500000 /\ m.cost_micros.scale = 0)
                      => cvRes.cost.mant * 10 = 15 * Pow10(cvRes.cost.scale)
               /\ (m.ctr.mant = 342 /\ m.ctr.scale = 4)
                      => cvRes.ctr.mant * 100 = 342 * Pow10(cvRes.ctr.scale)

C13_Witness ==
    /\ cvFn = "adsCampaign"
    /\ cvArg.metrics.cost_micros = [nan |-> FALSE, mant |-> 1500000, scale |-> 0]
    /\ cvArg.metrics.ctr = [nan |-> FALSE, mant |-> 342, scale |-> 4]
    /\ cvRes.cost = [nan |-> FALSE, mant |-> 1500000, scale |-> 6]
    /\ cvRes.ctr = [nan |-> FALSE, mant |-> 34200, scale |-> 4]

\* C13 (as stated): in the advertising endpoint the click-through rate of
\* the totals and of every campaign row is a 2-decimal percentage string,
\* the provider's fraction times 100 (0.0342 gives "3.42").
C13_CtrIsTwoDecimalString ==
    cvFn \in {"adsTotals", "adsCampaign"}
        => /\ "mant" \notin DOMAIN cvRes.ctr
           /\ cvRes.ctr = toFixed2([nan |-> FALSE, mant |-> cvArg.metrics.ctr.mant * 100,
                                    scale |-> cvArg.metrics.ctr.scale])

\* C14: in the web-analytics endpoint, bounceRate and engagementRate, which
\* the provider returns as fractions in 0..1, are in the record strings of
\* digits with exactly 2 decimals whose value is the fraction times 100,
\* rounded to the nearest hundredth, for every totals row.
C14_RatesAreTwoDecimalPercentages ==
    cvFn = "ga4Totals"
        => \A field \in {[i |-> 5, r |-> cvRes.bounceRate],
                         [i |-> 7, r |-> cvRes.engagementRate]} :
              LET r     == field.r
                  f     == parseFloat(cvArg.metricValues[field.i])
                  n     == Len(r)
                  cents == DigitsValue(SubSeq(r, 1, n - 3) \o SubSeq(r, n - 1, n), 0)
                  p     == Pow10(f.scale)
                  diff  == cents * p - 10000 * f.mant
              IN  /\ n >= 4
                  /\ r[n - 2] = "."
                  /\ \A j \in (1..n) \ {n - 2} : r[j] \in DigitChars
                  /\ 2 * diff <= p
                  /\ 0 - 2 * diff <= p

C14_Witness ==
    /\ cvFn = "ga4Totals"
    /\ cvArg.metricValues[5] = Chars_0_4321
    /\ cvArg.metricValues[7] = Chars_0_6
    /\ cvRes.bounceRate = <<"4", "3", ".", "2", "1">>
    /\ cvRes.engagementRate = <<"6", "0", ".", "0", "0">>

\* C15: in every success record of the web-analytics and advertising
\* endpoints each breakdown collection (timeSeries, topPages, trafficSources,
\* devices, countries; campaigns) is present and is a sequence with one entry
\* per row of its provider reply: of length zero when the reply has no rows
\* or no rows field at all, never undefined or missing.
C15_BreakdownsAreSequences ==
    (pc = "done" /\ resp.status = 200) =>
        /\ ep = "ga4" =>
            /\ {"timeSeries", "topPages", "trafficSources", "devices", "countries"}
                   \subseteq DOMAIN resp.body
            /\ \A k \in 2..6 :
                LET field == <<"metrics", "timeSeries", "topPages", "trafficSources",
                               "devices", "countries">>[k]
                    n     == IF replies[k].hasRows THEN Len(replies[k].rows) ELSE 0
                IN  DOMAIN resp.body[field] = 1..n
        /\ ep = "ads" =>
            /\ "campaigns" \in DOMAIN resp.body
            /\ DOMAIN resp.body.campaigns = 1..Len(replies[1].rows)

\* a web-analytics record built from a traffic-sources reply without a rows
\* field, a top-pages reply with an empty rows field and a devices reply
\* with a row
C15_Witness ==
    /\ pc = "done" /\ resp.status = 200 /\ ep = "ga4"
    /\ ~replies[4].hasRows /\ resp.body.trafficSources = <<>>
    /\ replies[3].hasRows /\ replies[3].rows = <<>> /\ resp.body.topPages = <<>>
    /\ Len(replies[5].rows) = 1 /\ Len(resp.body.devices) = 1

\* C16: on every provider endpoint, a request with a token that finds one or
\* more required environment items absent ends with a server-class failure
\* whose body names exactly the absent items, and issues no identity lookup
\* and no provider query.
C16_MissingConfigIsNamed ==
    LET required == IF ep = "ads" THEN ADS_REQUIRED
                    ELSE IF ep = "social" THEN SOCIAL_REQUIRED
                    ELSE <<[key |-> "copilotApiKey", var |-> "COPILOT_API_KEY"],
                           [key |-> "serviceAccount", var |-> "GA4_SERVICE_ACCOUNT"]>>
        absent   == missingVars(required, env)
    IN  (pc = "done" /\ ~Falsy(token) /\ absent # <<>>) =>
            /\ resp.status >= 500
            /\ "missing" \in DOMAIN resp.body
            /\ resp.body.missing = absent
            /\ idCalls = 0
            /\ issued = <<>>

\* C17: every mounted provider panel shows exactly one of the loading
\* indicator, populated metrics, the "not configured for this account"
\* panel (advertising panel only) or an error panel; no panel is ever in
\* another displayed state.
C17_PanelShowsOneOfFourViews ==
    /\ panel["ga4"].mounted =>
           GA4Dashboard_View(panel["ga4"]) \in {"loading", "metrics", "error"}
    /\ panel["ads"].mounted =>
           GoogleAdsMetrics_View(panel["ads"])
               \in {"loading", "metrics", "notConfigured", "error"}
    /\ panel["social"].mounted =>
           MetricoolMetrics_View(panel["social"]) \in {"loading", "metrics", "error"}

\* C18: the web-analytics endpoint issues its six report queries
\* concurrently: all six are issued before any of them has completed
\* (so issuing one does not depend on the outcome of another), and the
\* request is answered only after all six have completed or failed.
C18_ReportsIssuedConcurrently ==
    ep = "ga4" =>
        /\ replies # <<>> => Len(issued) = Len(GA4_REPORTS)
        /\ (pc = "done" /\ issued # <<>>) => Len(replies) = Len(GA4_REPORTS)

\* C19: every failure response of the advertising endpoint that results
\* from constructing the client, constructing the customer instance or
\* executing the queries carries the underlying error's message and the
\* date range that was attempted.
C19_AdsFailuresCarryDiagnostics ==
    (/\ ep = "ads" /\ pc = "done" /\ resp.status = 500
     /\ resp.body.error \in {"Failed to initialize Google Ads client",
                             "Failed to create customer instance",
                             "Failed to query Google Ads data"}) =>
        /\ "details" \in DOMAIN resp.body
        /\ resp.body.details # ""
        /\ "dateRange" \in DOMAIN resp.body

\* C20: every success record echoes the tenant id used for the account
\* lookup and carries the provider account identifier of the account
\* config that was used: the property id for web-analytics, the customer
\* id for advertising, the blog id for social.
C20_RecordNamesTenantAndAccount ==
    (pc = "done" /\ resp.status = 200) =>
        /\ "companyId" \in DOMAIN resp.body
        /\ resp.body.companyId = companyId
        /\ ep = "ga4" => /\ "propertyId" \in DOMAIN resp.body
                         /\ resp.body.propertyId = config.propertyId
        /\ ep = "ads" => /\ "customerId" \in DOMAIN resp.body
                         /\ resp.body.customerId = config.customerId
        /\ ep = "social" => /\ "blogId" \in DOMAIN resp.body
                            /\ resp.body.blogId = config.blogId

\* C21: every provider query that carries a date range carries one whose
\* start, once resolved to a calendar date, is not later than its end; a
\* request such as startDate=today, endDate=7daysAgo reaches no provider.
C21_SentRangeIsOrdered ==
    \A i \in 1..Len(issued) :
        issued[i].from # NULL =>
            LET from == formatDate(tz, now, issued[i].from)
                to   == formatDate(tz, now, issued[i].to)
            IN  (~from.threw /\ ~to.threw) =>
                    DigitsValue(StripHyphens(from.value), 0)
                        <= DigitsValue(StripHyphens(to.value), 0)

\* C22: within one endpoint request nothing is retried: the identity lookup
\* is issued at most once and each provider sub-query (a report, a query, a
\* call) at most once, whatever the outcomes of the others.
C22_NothingIsRetried ==
    /\ idCalls <= 1
    /\ \A i \in 1..Len(issued) :
        /\ issued[i].provider = ep
        /\ \A j \in 1..Len(issued) : issued[i].q = issued[j].q => i = j

\* a request answered after its first report was rejected, and one answered
\* after an advertising query was rejected: one report, two queries issued
C22_Witness ==
    /\ pc = "done" /\ resp.status = 500 /\ idCalls = 1
    /\ \/ ep = "ga4" /\ Len(replies) = 1 /\ ~replies[1].ok /\ Len(issued) = 1
       \/ ep = "ads" /\ Len(replies) = 2 /\ ~replies[2].ok /\ Len(issued) = 2

\* C23: whenever no request of GA4Dashboard is in flight, loading is false
\* and what the component shows is the outcome of the request issued last,
\* the one for the current search parameters and the selected range: the
\* "No token provided" error only if that request had an empty token, data
\* only if it had a token, and data for the selected range.  An earlier
\* request that settles late never decides what is shown.
C23_LatestRequestDecidesView ==
    LET c      == panel["ga4"]
        latest == TemplateToken(searchToken)
    IN  (c.mounted /\ \A f \in inflight : f.panel # "ga4") =>
            /\ ~c.loading
            /\ (GA4Dashboard_View(c) = "error" /\ c.error = "No token provided")
                   => Falsy(latest)
            /\ GA4Dashboard_View(c) \in {"metrics", "noData"} => ~Falsy(latest)
            /\ GA4Dashboard_View(c) = "metrics" =>
                   /\ c.data.dateRange.startDate = RangeValue(selectedRange).start
                   /\ c.data.dateRange.endDate = RangeValue(selectedRange).end

\* C24: in every panel, when the HTTP calls settle, a started fetch
\* eventually sets loading to false: a mounted panel that is loading
\* eventually is not (or is unmounted by its parent); when loading goes from
\* true to false in an instance, data has been set (successful response) or
\* error has been set (non-OK response, network error, unparsable body); and
\* a mounted panel none of whose fetches is pending is not loading.
C24_FetchEndsLoading ==
    /\ \A p \in Panels :
        (panel[p].mounted /\ panel[p].loading)
            ~> (~panel[p].mounted \/ ~panel[p].loading)
    /\ [][\A p \in Panels :
            (/\ panel[p].mounted /\ panel[p].loading
             /\ panel'[p].mounted /\ ~panel'[p].loading
             /\ panel'[p].gen = panel[p].gen)
                => (panel'[p].data # JSNull \/ panel'[p].error # NoError)]_vars
    /\ [](\A p \in Panels :
            (panel[p].mounted
             /\ \A f \in inflight : ~(f.panel = p /\ f.gen = panel[p].gen))
                => ~panel[p].loading)

\* the social panel after its only pending fetch was rejected by the network
C24_Witness ==
    /\ panel["social"].mounted
    /\ ~panel["social"].loading
    /\ panel["social"].error = "Failed to fetch"
    /\ \A f \in inflight : f.panel # "social"

\* C25: GA4Dashboard renders its date-range selector only when it is not
\* loading, has no error and has data with metrics.  So in every other view
\* (loading, error, no data) no step changes the selected range, and a new
\* request of GA4Dashboard starts only with a change of the search
\* parameters.
C25_SelectorOnlyWithMetrics ==
    [][GA4Dashboard_View(panel["ga4"]) # "metrics" =>
           /\ selectedRange' = selectedRange
           /\ started'["ga4"] # started["ga4"] => searchToken' # searchToken]_vars

\* the error view and the no-data view after a second request, started by a
\* change of the search parameters, with the range still the initial one
C25_Witness ==
    /\ GA4Dashboard_View(panel["ga4"]) \in {"error", "noData"}
    /\ started["ga4"] = 2
    /\ inflight = {}
    /\ selectedRange = 3

\* C26: in every panel, a fetch that starts clears the error of the one
\* before; data once set is never cleared while the instance lives; when a
\* fetch fails the panel shows the error panel, whatever data an earlier
\* fetch left; and when a fetch succeeds, after a failed one or not, the
\* panel shows the new record (its metrics, or the no-data box for a record
\* without metrics).
C26_ErrorClearedDataKept ==
    [][LET View(p, c) ==
               CASE p = "ga4" -> GA4Dashboard_View(c)
                 [] p = "ads" -> GoogleAdsMetrics_View(c)
                 [] p = "social" -> MetricoolMetrics_View(c)
           Same(p) ==
               panel[p].mounted /\ panel'[p].mounted /\ panel'[p].gen = panel[p].gen
       IN  \A p \in Panels :
             /\ (started'[p] # started[p] /\ panel'[p].mounted) =>
                    (panel'[p].loading /\ panel'[p].error = NoError)
             /\ (Same(p) /\ panel[p].data # JSNull) => panel'[p].data # JSNull
             /\ (Same(p) /\ panel[p].error = NoError /\ panel'[p].error # NoError) =>
                    View(p, panel'[p]) = "error"
             /\ (Same(p) /\ panel'[p].data # panel[p].data) =>
                    View(p, panel'[p]) =
                        (IF "metrics" \in DOMAIN panel'[p].data
                            /\ panel'[p].data.metrics = JSNull
                         THEN "noData" ELSE "metrics")]_vars

C28_NoTotalsRowGivesNullMetrics ==
    (pc = "done" /\ resp.status = 200) =>
        /\ (ep = "ga4" /\ (~replies[1].hasRows \/ replies[1].rows = <<>>)) =>
            /\ resp.body.metrics = JSNull
            /\ \A k \in 2..6 :
                Len(resp.body[<<"metrics", "timeSeries", "topPages", "trafficSources",
                                "devices", "countries">>[k]])
                    = (IF replies[k].hasRows THEN Len(replies[k].rows) ELSE 0)
            /\ LET c == Settled("ga4", Fetching(Mounted(1)), Arrived(resp))
               IN  GA4Dashboard_View(c) = "noData" /\ ~RendersPanels(c)
        /\ (ep = "ads" /\ replies[2].rows = <<>>) =>
            /\ resp.body.metrics = JSNull
            /\ Len(resp.body.campaigns) = Len(replies[1].rows)
            /\ GoogleAdsMetrics_View(Settled("ads", Fetching(Mounted(1)), Arrived(resp)))
                   = "noData"

\* a web-analytics record from a totals reply with no row and a top-pages
\* reply with a row
C28_Witness ==
    /\ pc = "done" /\ resp.status = 200 /\ ep = "ga4"
    /\ replies[1].hasRows /\ replies[1].rows = <<>>
    /\ Len(replies[3].rows) = 1
    /\ resp.body.metrics = JSNull
    /\ Len(resp.body.topPages) = 1

C30_Only401WithoutToken ==
    pc = "done" =>
        /\ resp.status = 401 => token \in {NULL, <<>>}
        /\ (token \notin {NULL, <<>>}
                /\ (session.kind \in {"throws", "noSession"}
                        \/ (session.kind = "session" /\ session.companyId = NoCompanyId))) =>
               \/ resp.status = 500
               \/ /\ resp.status = 200
                  /\ resp.body.companyId = "default"
                  /\ companyId = "default"

\* a token the identity service rejects: the advertising endpoint answers
\* with the default tenant's record
C30_Witness ==
    /\ pc = "done" /\ token = <<"t", "o", "k">> /\ session.kind = "throws"
    /\ ep = "ads" /\ resp.status = 200 /\ resp.body.companyId = "default"

=============================================================================
